---- MODULE Spec2Model ----
(***************************************************************************)
(* PF2E Vision Configuration (Foundry VTT module).                         *)
(*                                                                         *)
(* Two revisions of class PF2EVisionConfig are modelled:                   *)
(*   "capped"   : src/scripts/pf2e-vision-config.js                        *)
(*   "uncapped" : src/unnamed/part_000                                     *)
(* The variable rev says which revision is loaded.                         *)
(*                                                                         *)
(* JavaScript values are tagged records [k, n, s].  A finite number is     *)
(* kept in fixed point: n counts units of 1/Den, so Num(Den) is 1.         *)
(***************************************************************************)
EXTENDS Integers, FiniteSets, Sequences, TLC

VARIABLES
    rev,          \* the revision loaded: "capped" or "uncapped"
    args,         \* arguments drawn for the resolver call of ResolverSpec
    call,         \* the last call of a resolver method: arguments and result
    initialized,  \* this.initialized
    hooks,        \* event |-> number of handlers the instance has registered
    token,        \* the token document: module flags, vision.range, vision.darkness.range
    request,      \* the changes of the update in flight, as the host received them
    pending,      \* the same changes, as the preUpdateToken handler left them
    stage,        \* the host's cycle: idle, preUpdate, unhandled, apply, updated,
                  \* preCreate, create
    settings,     \* the world settings of the module, as game.settings.get returns them
    scene,        \* the darkness level of the scene the token is on
    corrective,   \* corrective updates issued since the last update from outside
    queued        \* corrective updates issued and not yet started

vars == <<rev, args, call, initialized, hooks, token, request, pending, stage,
          settings, scene, corrective, queued>>

-----------------------------------------------------------------------------
(* Bounds *)

\* resolution of the fixed-point numbers: n stands for n / Den
Den == 10

\* miles inputs of the resolver run over 0, 1/Den, ..., MaxMiles/Den
MaxMiles == 10

\* registrations of one handler on the event bus that are counted
MaxRegs == 2

\* corrective updates counted after one update from outside
MaxCorrective == 3

-----------------------------------------------------------------------------
(* JavaScript values and the operators of the language that the code uses *)

Num(n) == [k |-> "num", n |-> n, s |-> ""]

Ft(i) == Num(i * Den)

NaN == [k |-> "nan", n |-> 0, s |-> ""]

PosInf == [k |-> "inf", n |-> 0, s |-> ""]

NegInf == [k |-> "ninf", n |-> 0, s |-> ""]

Undefined == [k |-> "undef", n |-> 0, s |-> ""]

Null == [k |-> "null", n |-> 0, s |-> ""]

Str(s) == [k |-> "str", n |-> 0, s |-> s]

Zero == Num(0)

\* Number(s) for a string: whitespace-free decimal literals of the model, the
\* empty string (0), and anything else (NaN)
StringToNumber(s) ==
    CASE s = ""    -> Zero
      [] s = "60"  -> Ft(60)
      [] s = "-5"  -> Ft(-5)
      [] OTHER     -> NaN

\* Number(v)
ToNumber(v) ==
    CASE v.k \in {"num", "nan", "inf", "ninf"} -> v
      [] v.k = "undef" -> NaN
      [] v.k = "null"  -> Zero
      [] v.k = "str"   -> StringToNumber(v.s)

\* truthiness of a value
ToBoolean(v) ==
    CASE v.k = "num" -> v.n # 0
      [] v.k \in {"nan", "undef", "null"} -> FALSE
      [] v.k \in {"inf", "ninf"} -> TRUE
      [] v.k = "str" -> v.s # ""

\* a || b
OrElse(a, b) == IF ToBoolean(a) THEN a ELSE b

\* a ?? b
Nullish(a, b) == IF a.k \in {"undef", "null"} THEN b ELSE a

\* a === b
StrictEq(a, b) == a.k # "nan" /\ a = b

\* sign of a number that is not NaN: -1, 0, 1
Sign(a) ==
    CASE a.k = "inf"  -> 1
      [] a.k = "ninf" -> -1
      [] OTHER -> IF a.n > 0 THEN 1 ELSE IF a.n < 0 THEN -1 ELSE 0

\* a + b on numbers
Add(a, b) ==
    CASE a.k = "nan" \/ b.k = "nan" -> NaN
      [] a.k = "inf"  -> IF b.k = "ninf" THEN NaN ELSE PosInf
      [] a.k = "ninf" -> IF b.k = "inf" THEN NaN ELSE NegInf
      [] b.k = "inf"  -> PosInf
      [] b.k = "ninf" -> NegInf
      [] OTHER -> Num(a.n + b.n)

\* a * b on numbers; exact when one factor is a whole number
Mul(a, b) ==
    CASE a.k = "nan" \/ b.k = "nan" -> NaN
      [] a.k \in {"inf", "ninf"} \/ b.k \in {"inf", "ninf"} ->
            IF Sign(a) * Sign(b) = 0 THEN NaN
            ELSE IF Sign(a) * Sign(b) > 0 THEN PosInf ELSE NegInf
      [] OTHER -> Num((a.n * b.n) \div Den)

\* a < b on numbers
Less(a, b) ==
    CASE a.k = "nan" \/ b.k = "nan" -> FALSE
      [] a.k = "inf"  -> FALSE
      [] a.k = "ninf" -> b.k # "ninf"
      [] b.k = "inf"  -> TRUE
      [] b.k = "ninf" -> FALSE
      [] OTHER -> a.n < b.n

\* Math.min(a, b)
MathMin(a, b) ==
    IF a.k = "nan" \/ b.k = "nan" THEN NaN
    ELSE IF Less(b, a) THEN b ELSE a

\* Math.round left out
MathRoundOmitted(a) == a

\* Math.round(a): the nearest whole number, a half rounds up
MathRound(a) ==
    IF a.k = "num" THEN Num(((2 * a.n + Den) \div (2 * Den)) * Den) ELSE a

-----------------------------------------------------------------------------
(* The resolver *)

FeetPerMile == 5280

\* the sum returned without Math.round
calculateTotalVisionUnrounded(feet, miles) ==
    LET feetValue  == OrElse(ToNumber(feet), Zero)
        milesValue == OrElse(ToNumber(miles), Zero)
    IN  Add(feetValue, Mul(milesValue, Ft(FeetPerMile)))

calculateTotalVision(feet, miles) ==
    LET feetValue  == OrElse(ToNumber(feet), Zero)
        milesValue == OrElse(ToNumber(miles), Zero)
    IN  MathRound(Add(feetValue, Mul(milesValue, Ft(FeetPerMile))))

Ranges(range, darknessRange) == [range |-> range, darknessRange |-> darknessRange]

\* low-light not doubled
calculateVisionRangesUncappedNoDouble(totalVision, visionType) ==
    LET totalVisionValue == OrElse(ToNumber(totalVision), Zero)
        r == CASE StrictEq(visionType, Str("darkvision"))  -> Ranges(Zero, totalVisionValue)
               [] StrictEq(visionType, Str("blindsight"))  -> Ranges(Zero, totalVisionValue)
               [] StrictEq(visionType, Str("tremorsense")) -> Ranges(Zero, totalVisionValue)
               [] OTHER                                    -> Ranges(totalVisionValue, Zero)
    IN  Ranges(MathRound(r.range), MathRound(r.darknessRange))

\* the default branch of the switch left empty
calculateVisionRangesUncappedNoDefault(totalVision, visionType) ==
    LET totalVisionValue == OrElse(ToNumber(totalVision), Zero)
        r == CASE StrictEq(visionType, Str("normal"))      -> Ranges(totalVisionValue, Zero)
               [] StrictEq(visionType, Str("low-light"))   -> Ranges(Mul(totalVisionValue, Ft(2)), Zero)
               [] StrictEq(visionType, Str("darkvision"))  -> Ranges(Zero, totalVisionValue)
               [] StrictEq(visionType, Str("blindsight"))  -> Ranges(Zero, totalVisionValue)
               [] StrictEq(visionType, Str("tremorsense")) -> Ranges(Zero, totalVisionValue)
               [] OTHER                                    -> Ranges(Zero, Zero)
    IN  Ranges(MathRound(r.range), MathRound(r.darknessRange))

\* darkvision without "range = 0": the distance lands in both fields
calculateVisionRangesUncappedBothFields(totalVision, visionType) ==
    LET totalVisionValue == OrElse(ToNumber(totalVision), Zero)
        r == CASE StrictEq(visionType, Str("normal"))      -> Ranges(totalVisionValue, Zero)
               [] StrictEq(visionType, Str("low-light"))   -> Ranges(Mul(totalVisionValue, Ft(2)), Zero)
               [] StrictEq(visionType, Str("darkvision"))  -> Ranges(totalVisionValue, totalVisionValue)
               [] StrictEq(visionType, Str("blindsight"))  -> Ranges(Zero, totalVisionValue)
               [] StrictEq(visionType, Str("tremorsense")) -> Ranges(Zero, totalVisionValue)
               [] OTHER                                    -> Ranges(totalVisionValue, Zero)
    IN  Ranges(MathRound(r.range), MathRound(r.darknessRange))

calculateVisionRangesUncapped(totalVision, visionType) ==
    LET totalVisionValue == OrElse(ToNumber(totalVision), Zero)
        r == CASE StrictEq(visionType, Str("normal"))      -> Ranges(totalVisionValue, Zero)
               [] StrictEq(visionType, Str("low-light"))   -> Ranges(Mul(totalVisionValue, Ft(2)), Zero)
               [] StrictEq(visionType, Str("darkvision"))  -> Ranges(Zero, totalVisionValue)
               [] StrictEq(visionType, Str("blindsight"))  -> Ranges(Zero, totalVisionValue)
               [] StrictEq(visionType, Str("tremorsense")) -> Ranges(Zero, totalVisionValue)
               [] OTHER                                    -> Ranges(totalVisionValue, Zero)
    IN  Ranges(MathRound(r.range), MathRound(r.darknessRange))

\* blindsight capped with darkvision's 1000
calculateVisionRangesCappedBlindsight1000(totalVision, visionType) ==
    LET totalVisionValue == OrElse(ToNumber(totalVision), Zero)
        r == CASE StrictEq(visionType, Str("normal"))      -> Ranges(MathMin(totalVisionValue, Ft(1000)), Zero)
               [] StrictEq(visionType, Str("low-light"))   -> Ranges(MathMin(Mul(totalVisionValue, Ft(2)), Ft(2000)), Zero)
               [] StrictEq(visionType, Str("darkvision"))  -> Ranges(Zero, MathMin(totalVisionValue, Ft(1000)))
               [] StrictEq(visionType, Str("blindsight"))  -> Ranges(Zero, MathMin(totalVisionValue, Ft(1000)))
               [] StrictEq(visionType, Str("tremorsense")) -> Ranges(MathMin(totalVisionValue, Ft(300)), Zero)
               [] OTHER                                    -> Ranges(MathMin(totalVisionValue, Ft(1000)), Zero)
    IN  Ranges(MathRound(r.range), MathRound(r.darknessRange))

\* a distance beyond the cap gives no vision instead of the cap
calculateVisionRangesCappedZeroBeyond(totalVision, visionType) ==
    LET totalVisionValue == OrElse(ToNumber(totalVision), Zero)
        cut(v, cap) == IF Less(cap, v) THEN Zero ELSE v
        r == CASE StrictEq(visionType, Str("normal"))      -> Ranges(cut(totalVisionValue, Ft(1000)), Zero)
               [] StrictEq(visionType, Str("low-light"))   -> Ranges(cut(Mul(totalVisionValue, Ft(2)), Ft(2000)), Zero)
               [] StrictEq(visionType, Str("darkvision"))  -> Ranges(Zero, cut(totalVisionValue, Ft(1000)))
               [] StrictEq(visionType, Str("blindsight"))  -> Ranges(Zero, cut(totalVisionValue, Ft(500)))
               [] StrictEq(visionType, Str("tremorsense")) -> Ranges(cut(totalVisionValue, Ft(300)), Zero)
               [] OTHER                                    -> Ranges(cut(totalVisionValue, Ft(1000)), Zero)
    IN  Ranges(MathRound(r.range), MathRound(r.darknessRange))

\* tremorsense reaches as far in darkness as in light
calculateVisionRangesCappedTremorsenseBoth(totalVision, visionType) ==
    LET totalVisionValue == OrElse(ToNumber(totalVision), Zero)
        r == CASE StrictEq(visionType, Str("normal"))      -> Ranges(MathMin(totalVisionValue, Ft(1000)), Zero)
               [] StrictEq(visionType, Str("low-light"))   -> Ranges(MathMin(Mul(totalVisionValue, Ft(2)), Ft(2000)), Zero)
               [] StrictEq(visionType, Str("darkvision"))  -> Ranges(Zero, MathMin(totalVisionValue, Ft(1000)))
               [] StrictEq(visionType, Str("blindsight"))  -> Ranges(Zero, MathMin(totalVisionValue, Ft(500)))
               [] StrictEq(visionType, Str("tremorsense")) -> Ranges(MathMin(totalVisionValue, Ft(300)), MathMin(totalVisionValue, Ft(300)))
               [] OTHER                                    -> Ranges(MathMin(totalVisionValue, Ft(1000)), Zero)
    IN  Ranges(MathRound(r.range), MathRound(r.darknessRange))

\* low-light vision is capped at 1000 like normal vision
calculateVisionRangesCappedLowLight1000(totalVision, visionType) ==
    LET totalVisionValue == OrElse(ToNumber(totalVision), Zero)
        r == CASE StrictEq(visionType, Str("normal"))      -> Ranges(MathMin(totalVisionValue, Ft(1000)), Zero)
               [] StrictEq(visionType, Str("low-light"))   -> Ranges(MathMin(Mul(totalVisionValue, Ft(2)), Ft(1000)), Zero)
               [] StrictEq(visionType, Str("darkvision"))  -> Ranges(Zero, MathMin(totalVisionValue, Ft(1000)))
               [] StrictEq(visionType, Str("blindsight"))  -> Ranges(Zero, MathMin(totalVisionValue, Ft(500)))
               [] StrictEq(visionType, Str("tremorsense")) -> Ranges(MathMin(totalVisionValue, Ft(300)), Zero)
               [] OTHER                                    -> Ranges(MathMin(totalVisionValue, Ft(1000)), Zero)
    IN  Ranges(MathRound(r.range), MathRound(r.darknessRange))

calculateVisionRangesCapped(totalVision, visionType) ==
    LET totalVisionValue == OrElse(ToNumber(totalVision), Zero)
        r == CASE StrictEq(visionType, Str("normal"))      -> Ranges(MathMin(totalVisionValue, Ft(1000)), Zero)
               [] StrictEq(visionType, Str("low-light"))   -> Ranges(MathMin(Mul(totalVisionValue, Ft(2)), Ft(2000)), Zero)
               [] StrictEq(visionType, Str("darkvision"))  -> Ranges(Zero, MathMin(totalVisionValue, Ft(1000)))
               [] StrictEq(visionType, Str("blindsight"))  -> Ranges(Zero, MathMin(totalVisionValue, Ft(500)))
               [] StrictEq(visionType, Str("tremorsense")) -> Ranges(MathMin(totalVisionValue, Ft(300)), Zero)
               [] OTHER                                    -> Ranges(MathMin(totalVisionValue, Ft(1000)), Zero)
    IN  Ranges(MathRound(r.range), MathRound(r.darknessRange))

\* a resolver with hidden state: no vision before the module is initialized
calculateVisionRangesWhenInitialized(totalVision, visionType) ==
    IF ~initialized THEN Ranges(Zero, Zero)
    ELSE IF rev = "capped" THEN calculateVisionRangesCapped(totalVision, visionType)
    ELSE calculateVisionRangesUncapped(totalVision, visionType)

\* the method of the loaded revision
calculateVisionRanges(totalVision, visionType) ==
    IF rev = "capped" THEN calculateVisionRangesCapped(totalVision, visionType)
    ELSE calculateVisionRangesUncapped(totalVision, visionType)

-----------------------------------------------------------------------------
(* Inputs *)

Revisions == {"capped", "uncapped"}

VisionTags == {"normal", "low-light", "darkvision", "blindsight", "tremorsense"}

\* vision types handed to the resolver: the five tags, and values that are none of them
VisionTypeInputs ==
    {Str(t) : t \in VisionTags} \cup {Str("bogus-type"), Str(""), Undefined, Null}

\* feet: whole and fractional distances around the caps, and unusable values
FeetInputs ==
    {Zero, Num(Den \div 2 - 1), Num(Den \div 2), Ft(30), Ft(60), Ft(100), Ft(500),
     Num(500 * Den + Den \div 2), Ft(1000), Ft(1001), Ft(-5),
     NaN, Undefined, Null, PosInf, Str("abc"), Str("60")}

MilesInputs ==
    {Num(i) : i \in 0..MaxMiles} \cup {Ft(-1), Undefined, Str("abc"), NaN, NegInf}

\* totals handed to calculateVisionRanges directly
TotalInputs ==
    {Zero, Ft(30), Ft(300), Ft(301), Ft(500), Ft(1000), Ft(1001), Ft(5280),
     Num(Den \div 2), Ft(-5), NaN, Undefined, Str("abc"), PosInf}

\* the arguments of a resolver call: feet, miles and a vision type for the two
\* methods in sequence, or a total and a vision type for calculateVisionRanges alone
Args(feet, miles, total, visionType, direct) ==
    [feet |-> feet, miles |-> miles, total |-> total, visionType |-> visionType,
     direct |-> direct]

NoArgs == Args(Undefined, Undefined, Undefined, Undefined, FALSE)

ArgInputs ==
    {Args(f, m, Undefined, v, FALSE) : f \in FeetInputs, m \in MilesInputs, v \in VisionTypeInputs}
    \cup {Args(Undefined, Undefined, t, v, TRUE) : t \in TotalInputs, v \in VisionTypeInputs}

ZeroRanges == Ranges(Zero, Zero)

NoCall ==
    [fn |-> "none", feet |-> Undefined, miles |-> Undefined, total |-> Undefined,
     visionType |-> Undefined, ranges |-> ZeroRanges, chained |-> FALSE]

-----------------------------------------------------------------------------
(* The host's documents *)

\* the keys of flags['pf2e-vision-config']; a key that is absent reads as undefined
Flags(present, feet, miles, visionType) ==
    [present |-> present, daylightVisionFeet |-> feet,
     daylightVisionMiles |-> miles, visionType |-> visionType]

NoFlags == Flags(FALSE, Undefined, Undefined, Undefined)

\* an update's or a creation's data: flags['pf2e-vision-config'], vision.range,
\* vision.darkness.range, and three keys the module has no business with:
\* vision.angle, vision.darkness.min and name
Changes(flags, range, darknessRange) ==
    [flags |-> flags, range |-> range, darknessRange |-> darknessRange,
     angle |-> Undefined, darknessMin |-> Undefined, name |-> Undefined]

NoChanges == Changes(NoFlags, Undefined, Undefined)

\* the three world settings, as game.settings.get returns them
Settings(feet, miles, visionType) ==
    [defaultDaylightFeet |-> feet, defaultDaylightMiles |-> miles,
     defaultVisionType |-> visionType]

\* the defaults registerSettings registers
RegisteredDefaults == Settings(Zero, Zero, Str("normal"))

\* values the settings can hold: unset, falsy, and configured by the game master
SettingsInputs ==
    {Settings(f, m, v) : f \in {Undefined, Zero, Ft(60)}, m \in {Undefined, Num(Den)},
                         v \in {Undefined, Str(""), Str("darkvision")}}

\* what stands for a setting that was never registered: game.settings.get throws
\* when asked for it
Unregistered == [k |-> "unregistered", n |-> 0, s |-> ""]

\* the settings after a registerSettings in which the first k calls of
\* game.settings.register returned and the next one threw; no game master has
\* changed the ones registered
registerSettings(k) ==
    Settings(IF k >= 1 THEN Zero ELSE Unregistered,
             IF k >= 2 THEN Zero ELSE Unregistered,
             IF k >= 3 THEN Str("normal") ELSE Unregistered)

\* the settings a failed registration leaves
FailedRegistrations == {registerSettings(k) : k \in 0..2}

\* whether the three game.settings.get calls of onPreCreateToken return
settingsReadable ==
    /\ settings.defaultDaylightFeet # Unregistered
    /\ settings.defaultDaylightMiles # Unregistered
    /\ settings.defaultVisionType # Unregistered

\* the darkness level of a scene: 0 in daylight, 1 in full darkness
DarknessLevels == {0, 1}

\* the events of the host's bus that initialize() subscribes to, in its order
HookOrder ==
    IF rev = "capped" THEN <<"renderTokenConfig", "preUpdateToken", "preCreateToken">>
    ELSE <<"renderTokenConfig", "closeTokenConfig", "preUpdateToken", "updateToken",
           "preCreateToken">>

Events ==
    {"renderTokenConfig", "closeTokenConfig", "preUpdateToken", "updateToken",
     "preCreateToken"}

-----------------------------------------------------------------------------
(* Initial state: the script is loaded, the instance constructed *)

Loaded ==
    /\ rev \in Revisions
    /\ call = NoCall
    /\ initialized = FALSE
    /\ hooks = [e \in Events |-> 0]
    /\ token = [flags |-> NoFlags, range |-> Zero, darknessRange |-> Zero]
    /\ request = NoChanges
    /\ pending = NoChanges
    /\ stage = "idle"
    /\ scene = 0
    /\ corrective = 0
    /\ queued = 0

Init == Loaded /\ args = NoArgs /\ settings = RegisteredDefaults

\* the same, with the arguments of one resolver call drawn from the wide input sets
ResolverInit == Loaded /\ args \in ArgInputs /\ settings = RegisteredDefaults

-----------------------------------------------------------------------------
(* Calls of the resolver's two methods *)

\* calculateTotalVision(feet, miles) with feet in F and miles in M
calculateTotalVisionCall(F, M) ==
    \E feet \in F, miles \in M :
        /\ call' = [fn |-> "calculateTotalVision", feet |-> feet, miles |-> miles,
                    total |-> calculateTotalVision(feet, miles),
                    visionType |-> Undefined, ranges |-> ZeroRanges, chained |-> FALSE]
        /\ UNCHANGED <<rev, args, initialized, hooks, token, request, pending, stage,
                       settings, scene, corrective, queued>>

\* calculateVisionRanges(total, visionType) on the total the preceding
\* calculateTotalVision call returned, as every caller in the class does
calculateVisionRangesOfTotal(V) ==
    \E visionType \in V :
        /\ call.fn = "calculateTotalVision"
        /\ call' = [call EXCEPT !.fn = "calculateVisionRanges",
                                !.visionType = visionType,
                                !.ranges = calculateVisionRanges(call.total, visionType),
                                !.chained = TRUE]
        /\ UNCHANGED <<rev, args, initialized, hooks, token, request, pending, stage,
                       settings, scene, corrective, queued>>

\* calculateVisionRanges(total, visionType) on a total given from outside
calculateVisionRangesCall(T, V) ==
    \E total \in T, visionType \in V :
        /\ call' = [fn |-> "calculateVisionRanges", feet |-> Undefined, miles |-> Undefined,
                    total |-> total, visionType |-> visionType,
                    ranges |-> calculateVisionRanges(total, visionType), chained |-> FALSE]
        /\ UNCHANGED <<rev, args, initialized, hooks, token, request, pending, stage,
                       settings, scene, corrective, queued>>

ResolverNext ==
    \/ ~args.direct /\ calculateTotalVisionCall({args.feet}, {args.miles})
    \/ ~args.direct /\ calculateVisionRangesOfTotal({args.visionType})
    \/ args.direct /\ calculateVisionRangesCall({args.total}, {args.visionType})

\* the resolver alone, over the wide input sets
ResolverSpec == ResolverInit /\ [][ResolverNext]_vars

-----------------------------------------------------------------------------
(* The handlers on the host's event bus *)

\* this.initialized is set only when every Hooks.on of the try block returned;
\* k is the number of Hooks.on calls that return before one throws
initialize ==
    /\ IF initialized
       THEN UNCHANGED <<initialized, hooks>>
       ELSE \E k \in 0..Len(HookOrder) :
              /\ \A i \in 1..k : hooks[HookOrder[i]] < MaxRegs
              /\ hooks' = [e \in Events |->
                              IF \E i \in 1..k : HookOrder[i] = e THEN hooks[e] + 1
                              ELSE hooks[e]]
              /\ initialized' = (k = Len(HookOrder))
    /\ UNCHANGED <<rev, args, call, token, request, pending, stage,
                   settings, scene, corrective, queued>>

\* tokenDocument.getFlag('pf2e-vision-config', key): undefined for a key not stored
getFlag(doc, key) == IF doc.flags.present THEN doc.flags[key] ELSE Undefined

\* a variant that takes the feet from the changes alone
newFeetFromChangesOnly(doc, changes) ==
    IF changes.flags.daylightVisionFeet # Undefined
    THEN OrElse(ToNumber(changes.flags.daylightVisionFeet), Zero)
    ELSE Zero

\* the three values the hook resolves: from the changes, else from the document
newFeet(doc, changes) ==
    IF changes.flags.daylightVisionFeet # Undefined
    THEN OrElse(ToNumber(changes.flags.daylightVisionFeet), Zero)
    ELSE Nullish(getFlag(doc, "daylightVisionFeet"), Zero)

newMiles(doc, changes) ==
    IF changes.flags.daylightVisionMiles # Undefined
    THEN OrElse(ToNumber(changes.flags.daylightVisionMiles), Zero)
    ELSE Nullish(getFlag(doc, "daylightVisionMiles"), Zero)

newVisionType(doc, changes) ==
    IF changes.flags.visionType # Undefined
    THEN changes.flags.visionType
    ELSE Nullish(getFlag(doc, "visionType"), Str("normal"))

\* whether the hook goes past its early return
usesVisionSystem(doc, changes) ==
    IF rev = "capped"
    THEN changes.flags.present
    ELSE \/ getFlag(doc, "daylightVisionFeet") # Null
         \/ getFlag(doc, "daylightVisionMiles") # Null
         \/ changes.flags.present

\* a variant that assigns changes.vision a new object instead of merging into it
preUpdateChangesReplacingVision(doc, changes) ==
    IF ~usesVisionSystem(doc, changes) THEN changes
    ELSE LET totalDaylightVision ==
                 calculateTotalVision(newFeet(doc, changes), newMiles(doc, changes))
             visionRanges ==
                 calculateVisionRanges(totalDaylightVision, newVisionType(doc, changes))
         IN  [changes EXCEPT !.range = visionRanges.range,
                             !.darknessRange = visionRanges.darknessRange,
                             !.angle = Undefined,
                             !.darknessMin = Undefined]

\* the changes object as onPreUpdateToken leaves it: mergeObject keeps the keys of
\* changes.vision and changes.vision.darkness that the handler does not name
preUpdateChanges(doc, changes) ==
    IF ~usesVisionSystem(doc, changes) THEN changes
    ELSE LET totalDaylightVision ==
                 calculateTotalVision(newFeet(doc, changes), newMiles(doc, changes))
             visionRanges ==
                 calculateVisionRanges(totalDaylightVision, newVisionType(doc, changes))
         IN  [changes EXCEPT !.range = visionRanges.range,
                             !.darknessRange = visionRanges.darknessRange]

\* updates of the token that reach the host: the token configuration form
\* submits all three flags.pf2e-vision-config.* fields; other callers update one
\* flag, or vision.range itself, alone or with other keys
UpdateInputs ==
    {Changes(Flags(TRUE, Ft(60), Num(1), Str("darkvision")), Undefined, Undefined),
     Changes(Flags(TRUE, Ft(-5), Str("abc"), Str("normal")), Undefined, Undefined),
     Changes(Flags(TRUE, Str("abc"), Ft(-1), Str("low-light")), Undefined, Undefined),
     Changes(Flags(TRUE, Undefined, Undefined, Str("tremorsense")), Undefined, Undefined),
     Changes(NoFlags, Ft(7), Undefined),
     [Changes(Flags(TRUE, Ft(30), Undefined, Str("low-light")), Undefined, Ft(7))
          EXCEPT !.angle = Ft(90), !.darknessMin = Ft(1), !.name = Str("abc")]}

\* the host starts the cycle of an update: it calls the preUpdateToken handlers
\* registered at that moment, and goes on at once when there is none
started == IF hooks["preUpdateToken"] > 0 THEN "preUpdate" ELSE "unhandled"

\* the host receives an update of the token from outside the module
updateRequested ==
    /\ stage = "idle"
    /\ \E changes \in UpdateInputs :
          /\ request' = changes
          /\ pending' = changes
    /\ stage' = started
    /\ corrective' = 0
    /\ UNCHANGED <<rev, args, call, initialized, hooks, token, settings, scene, queued>>

onPreUpdateToken ==
    /\ stage = "preUpdate"
    /\ hooks["preUpdateToken"] > 0
    /\ pending' = preUpdateChanges(token, pending)
    /\ stage' = "apply"
    /\ UNCHANGED <<rev, args, call, initialized, hooks, token, request,
                   settings, scene, corrective, queued>>

\* the document after the host has merged the changes into it
applied(doc, changes) ==
    LET put(old, new) == IF new # Undefined THEN new ELSE old
    IN  [flags |-> IF changes.flags.present
                   THEN Flags(TRUE,
                              put(doc.flags.daylightVisionFeet, changes.flags.daylightVisionFeet),
                              put(doc.flags.daylightVisionMiles, changes.flags.daylightVisionMiles),
                              put(doc.flags.visionType, changes.flags.visionType))
                   ELSE doc.flags,
         range |-> put(doc.range, changes.range),
         darknessRange |-> put(doc.darknessRange, changes.darknessRange)]

\* the host stores the changes, after the preUpdateToken handlers if any, and
\* calls the updateToken handlers registered at that moment
applyUpdate ==
    /\ stage \in {"apply", "unhandled"}
    /\ token' = applied(token, pending)
    /\ IF hooks["updateToken"] > 0
       THEN stage' = "updated" /\ UNCHANGED <<request, pending>>
       ELSE stage' = "idle" /\ request' = NoChanges /\ pending' = NoChanges
    /\ UNCHANGED <<rev, args, call, initialized, hooks, settings, scene, corrective, queued>>

\* the ranges onUpdateToken computes from the flags stored on the document
storedRanges(doc) ==
    LET feet == Nullish(getFlag(doc, "daylightVisionFeet"), Zero)
        miles == Nullish(getFlag(doc, "daylightVisionMiles"), Zero)
        visionType == Nullish(getFlag(doc, "visionType"), Str("normal"))
    IN  calculateVisionRanges(calculateTotalVision(feet, miles), visionType)

\* a variant that compares vision.range alone
needsCorrectionOfRangeOnly(doc) ==
    LET hasFlags == \/ getFlag(doc, "daylightVisionFeet") # Null
                    \/ getFlag(doc, "daylightVisionMiles") # Null
        currentRange == Nullish(doc.range, Zero)
    IN  hasFlags /\ ~StrictEq(currentRange, storedRanges(doc).range)

\* whether onUpdateToken calls tokenDocument.update
needsCorrection(doc) ==
    LET hasFlags == \/ getFlag(doc, "daylightVisionFeet") # Null
                    \/ getFlag(doc, "daylightVisionMiles") # Null
        currentRange == Nullish(doc.range, Zero)
        currentDarknessRange == Nullish(doc.darknessRange, Zero)
    IN  /\ hasFlags
        /\ \/ ~StrictEq(currentRange, storedRanges(doc).range)
           \/ ~StrictEq(currentDarknessRange, storedRanges(doc).darknessRange)

\* the update onUpdateToken issues
correctiveChanges(doc) ==
    Changes(NoFlags, storedRanges(doc).range, storedRanges(doc).darknessRange)

\* part_000 only: every registered updateToken handler compares the stored ranges
\* with the computed ones and issues a corrective update when they differ; the
\* handlers run one after the other on the same document, each up to its await,
\* and the updates they issued then run their cycles one at a time
onUpdateToken ==
    /\ stage = "updated"
    /\ LET issued == IF needsCorrection(token) THEN hooks["updateToken"] ELSE 0
       IN  /\ corrective + issued <= MaxCorrective
           /\ corrective' = corrective + issued
           /\ IF queued + issued > 0
              THEN /\ queued' = queued + issued - 1
                   /\ request' = correctiveChanges(token)
                   /\ pending' = correctiveChanges(token)
                   /\ stage' = started
              ELSE /\ queued' = queued
                   /\ request' = NoChanges
                   /\ pending' = NoChanges
                   /\ stage' = "idle"
    /\ UNCHANGED <<rev, args, call, initialized, hooks, token, settings, scene>>

\* the game master changes the lighting of the scene
sceneLightingChanged ==
    /\ \E level \in DarknessLevels \ {scene} : scene' = level
    /\ UNCHANGED <<rev, args, call, initialized, hooks, token, request, pending, stage,
                   settings, corrective, queued>>

\* argument values of the resolver calls made between the handlers' runs
FewFeet == {Ft(60)}

FewMiles == {Num(1)}

FewVisionTypes == {Str("tremorsense")}

FewTotals == {Ft(301)}

Next ==
    \/ initialize
    \/ updateRequested
    \/ onPreUpdateToken
    \/ applyUpdate
    \/ onUpdateToken
    \/ calculateTotalVisionCall(FewFeet, FewMiles)
    \/ calculateVisionRangesOfTotal(FewVisionTypes)
    \/ calculateVisionRangesCall(FewTotals, FewVisionTypes)

\* the handlers, with calls of the resolver from elsewhere between their runs
Spec == Init /\ [][Next]_vars

HostNext ==
    \/ initialize
    \/ updateRequested
    \/ onPreUpdateToken
    \/ applyUpdate
    \/ onUpdateToken
    \/ sceneLightingChanged

\* the handlers of the update cycle on a scene whose lighting changes
HostSpec == Init /\ [][HostNext]_vars

-----------------------------------------------------------------------------
(* The creation of a token *)

\* the defaults onPreCreateToken reads from the settings
defaultFlags ==
    Flags(TRUE, OrElse(settings.defaultDaylightFeet, Zero),
                OrElse(settings.defaultDaylightMiles, Zero),
                OrElse(settings.defaultVisionType, Str("normal")))

\* a variant that sets the defaults whether or not the data carries the flags
preCreateDataOverwritingFlags(data) ==
    IF ~settingsReadable THEN data ELSE
    LET withDefaults == [data EXCEPT !.flags = defaultFlags]
        visionFlags == withDefaults.flags
        totalVision == calculateTotalVision(OrElse(visionFlags.daylightVisionFeet, Zero),
                                            OrElse(visionFlags.daylightVisionMiles, Zero))
        visionRanges == calculateVisionRanges(totalVision,
                                              OrElse(visionFlags.visionType, Str("normal")))
    IN  IF rev = "capped" THEN withDefaults
        ELSE [withDefaults EXCEPT !.range = visionRanges.range,
                                  !.darknessRange = visionRanges.darknessRange]

\* a variant that reads each setting on its own and takes a setting it cannot read
\* for an unset one
preCreateDataDefaultsOnFailure(data) ==
    LET readable(value) == IF value = Unregistered THEN Undefined ELSE value
        defaults == Flags(TRUE, OrElse(readable(settings.defaultDaylightFeet), Zero),
                                OrElse(readable(settings.defaultDaylightMiles), Zero),
                                OrElse(readable(settings.defaultVisionType), Str("normal")))
        withDefaults == IF ~data.flags.present THEN [data EXCEPT !.flags = defaults]
                        ELSE data
        visionFlags == withDefaults.flags
        totalVision == calculateTotalVision(OrElse(visionFlags.daylightVisionFeet, Zero),
                                            OrElse(visionFlags.daylightVisionMiles, Zero))
        visionRanges == calculateVisionRanges(totalVision,
                                              OrElse(visionFlags.visionType, Str("normal")))
    IN  IF rev = "capped" THEN withDefaults
        ELSE [withDefaults EXCEPT !.range = visionRanges.range,
                                  !.darknessRange = visionRanges.darknessRange]

\* the creation data as onPreCreateToken leaves it: the defaults when the data has
\* no flags of the module and, in part_000 only, the vision ranges; the three
\* settings are read first, and when a read throws the catch block ends the
\* handler with nothing written
preCreateData(data) ==
    IF ~settingsReadable THEN data ELSE
    LET withDefaults == IF ~data.flags.present THEN [data EXCEPT !.flags = defaultFlags]
                        ELSE data
        visionFlags == withDefaults.flags
        totalVision == calculateTotalVision(OrElse(visionFlags.daylightVisionFeet, Zero),
                                            OrElse(visionFlags.daylightVisionMiles, Zero))
        visionRanges == calculateVisionRanges(totalVision,
                                              OrElse(visionFlags.visionType, Str("normal")))
    IN  IF rev = "capped" THEN withDefaults
        ELSE [withDefaults EXCEPT !.range = visionRanges.range,
                                  !.darknessRange = visionRanges.darknessRange]

\* creation data that reaches the host: without flags, with flags, with an empty
\* flags object, with vision ranges and other keys of its own
CreateInputs ==
    {Changes(NoFlags, Undefined, Undefined),
     Changes(Flags(TRUE, Ft(30), Undefined, Str("darkvision")), Undefined, Undefined),
     Changes(Flags(TRUE, Undefined, Undefined, Undefined), Ft(7), Undefined),
     [Changes(NoFlags, Ft(7), Ft(7)) EXCEPT !.angle = Ft(90), !.darknessMin = Ft(1),
                                            !.name = Str("abc")]}

\* the host receives the data of a token to create
createRequested ==
    /\ stage = "idle"
    /\ \E data \in CreateInputs :
          /\ request' = data
          /\ pending' = data
    /\ stage' = "preCreate"
    /\ UNCHANGED <<rev, args, call, initialized, hooks, token, settings, scene,
                   corrective, queued>>

onPreCreateToken ==
    /\ stage = "preCreate"
    /\ hooks["preCreateToken"] > 0
    /\ pending' = preCreateData(pending)
    /\ stage' = "create"
    /\ UNCHANGED <<rev, args, call, initialized, hooks, token, request, settings, scene,
                   corrective, queued>>

\* the host stores the new token, after the preCreateToken handlers if any
createToken ==
    /\ stage = "create" \/ (stage = "preCreate" /\ hooks["preCreateToken"] = 0)
    /\ token' = applied([flags |-> NoFlags, range |-> Zero, darknessRange |-> Zero], pending)
    /\ stage' = "idle"
    /\ request' = NoChanges
    /\ pending' = NoChanges
    /\ UNCHANGED <<rev, args, call, initialized, hooks, settings, scene, corrective, queued>>

\* the world settings hold any of the values a game master can leave in them, or
\* what a failed registration left
CreateInit == Loaded /\ args = NoArgs /\ settings \in SettingsInputs \cup FailedRegistrations

CreateNext ==
    \/ initialize
    \/ createRequested
    \/ onPreCreateToken
    \/ createToken

\* the handlers of a token's creation
CreateSpec == CreateInit /\ [][CreateNext]_vars

-----------------------------------------------------------------------------
(* Properties of the resolver, checked under ResolverSpec *)

\* a finite number that is not negative
IsNonNeg(v) == v.k = "num" /\ v.n >= 0

\* a finite whole number
IsWhole(v) == v.k = "num" /\ v.n % Den = 0

\* calculateTotalVision has returned for call.feet and call.miles
TotalReturned == call.fn = "calculateTotalVision" \/ call.chained

\* calculateVisionRanges has returned for call.total and call.visionType
RangesReturned == call.fn = "calculateVisionRanges"

\* calculateVisionRanges has returned for the total of call.feet and call.miles
Resolved == call.fn = "calculateVisionRanges" /\ call.chained

IsTag(v, t) == v = Str(t)

IsEnumerated(v) == \E t \in VisionTags : v = Str(t)

\* C1: in both revisions calculateTotalVision(feet, miles), for feet >= 0 and
\* miles >= 0, returns feet + miles * 5280 rounded to the nearest whole number
\* (a half rounds up), and the result is a whole number.
C1_TotalIsRoundedSum ==
    (TotalReturned /\ IsNonNeg(call.feet) /\ IsNonNeg(call.miles)) =>
        LET x == call.feet.n + FeetPerMile * call.miles.n
        IN  /\ IsWhole(call.total)
            /\ 2 * call.total.n - Den <= 2 * x
            /\ 2 * x < 2 * call.total.n + Den

\* feet 0, miles 1 gives 5280; and a fractional sum has been rounded
C1_Witness ==
    /\ call.fn = "calculateTotalVision"
    /\ \/ call.feet = Zero /\ call.miles = Ft(1) /\ call.total = Ft(5280)
       \/ call.feet = Num(Den \div 2) /\ call.miles = Zero /\ call.total = Ft(1)

\* C2: in the uncapped revision calculateVisionRanges follows the policy table
\* for every whole total >= 0: normal (total, 0), low-light (2 * total, 0),
\* darkvision, blindsight and tremorsense (0, total), with no cap.
C2_UncappedPolicyTable ==
    (rev = "uncapped" /\ RangesReturned /\ IsNonNeg(call.total) /\ IsWhole(call.total)) =>
        /\ IsTag(call.visionType, "normal") =>
              call.ranges = Ranges(call.total, Zero)
        /\ IsTag(call.visionType, "low-light") =>
              call.ranges = Ranges(Num(2 * call.total.n), Zero)
        /\ (\E t \in {"darkvision", "blindsight", "tremorsense"} : IsTag(call.visionType, t)) =>
              call.ranges = Ranges(Zero, call.total)

\* a mile of low-light vision is 10560 feet, beyond every cap of the other revision
C2_Witness ==
    /\ rev = "uncapped" /\ RangesReturned
    /\ call.total = Ft(5280) /\ IsTag(call.visionType, "low-light")
    /\ call.ranges = Ranges(Ft(10560), Zero)

\* C3: in the capped revision, for every whole total >= 0 and each of the five
\* vision types, neither output exceeds the type's cap (1000 normal, 2000
\* low-light, 1000 darkvision, 500 blindsight, 300 tremorsense), and when the
\* uncapped value (total, 2 * total for low-light) is within the cap the non-zero
\* output equals it.
C3_CappedPolicy ==
    (rev = "capped" /\ RangesReturned /\ IsNonNeg(call.total) /\ IsWhole(call.total)
        /\ IsEnumerated(call.visionType)) =>
        LET cap  == CASE IsTag(call.visionType, "normal")      -> 1000 * Den
                      [] IsTag(call.visionType, "low-light")   -> 2000 * Den
                      [] IsTag(call.visionType, "darkvision")  -> 1000 * Den
                      [] IsTag(call.visionType, "blindsight")  -> 500 * Den
                      [] IsTag(call.visionType, "tremorsense") -> 300 * Den
            base == IF IsTag(call.visionType, "low-light") THEN 2 * call.total.n
                    ELSE call.total.n
            r    == call.ranges.range
            d    == call.ranges.darknessRange
        IN  /\ r.k = "num" /\ d.k = "num"
            /\ r.n <= cap /\ d.n <= cap
            /\ base <= cap => \/ r.n = base /\ d.n = 0
                              \/ r.n = 0 /\ d.n = base

\* blindsight over 1001 feet is cut to 500
C3_Witness ==
    /\ rev = "capped" /\ RangesReturned
    /\ call.total = Ft(1001) /\ IsTag(call.visionType, "blindsight")
    /\ call.ranges = Ranges(Zero, Ft(500))

\* C4: in both revisions tremorsense gives range = 0 and the distance in
\* darknessRange (total 30 gives range 0, darknessRange 30), for every whole
\* total >= 0 up to the revision's cap.
C4_TremorsenseInDarkness ==
    (RangesReturned /\ IsTag(call.visionType, "tremorsense")
        /\ IsNonNeg(call.total) /\ IsWhole(call.total) /\ call.total.n <= 300 * Den) =>
        call.ranges = Ranges(Zero, call.total)

\* C5: in both revisions, for every total and every visionType that is none of
\* the five tags, calculateVisionRanges returns what it returns for 'normal'
\* with the same total.
C5_UnrecognizedIsNormal ==
    (RangesReturned /\ ~IsEnumerated(call.visionType)) =>
        call.ranges = calculateVisionRanges(call.total, Str("normal"))

\* an unrecognized tag, undefined or the empty string, with a range that is not 0
C5_Witness ==
    /\ RangesReturned
    /\ call.visionType \in {Str("bogus-type"), Undefined, Str("")}
    /\ call.total = Ft(30)
    /\ call.ranges = Ranges(Ft(30), Zero)

\* C6 as claimed: for darkvision, blindsight and tremorsense and every
\* feet >= 0, miles >= 0 (feet = miles = 0 included), exactly one of range and
\* darknessRange is non-zero.
C6_ExactlyOneNonZero ==
    (Resolved /\ IsNonNeg(call.feet) /\ IsNonNeg(call.miles)
        /\ \E t \in {"darkvision", "blindsight", "tremorsense"} : IsTag(call.visionType, t)) =>
        (call.ranges.range # Zero) # (call.ranges.darknessRange # Zero)

\* C6 amended: for these three vision types and feet >= 0, miles >= 0, exactly
\* one of range and darknessRange is non-zero when the total is at least 1, and
\* both are 0 when the total is 0.
C6_ExactlyOneNonZeroWhenTotalPositive ==
    (Resolved /\ IsNonNeg(call.feet) /\ IsNonNeg(call.miles)
        /\ \E t \in {"darkvision", "blindsight", "tremorsense"} : IsTag(call.visionType, t)) =>
        IF call.total = Zero
        THEN call.ranges = ZeroRanges
        ELSE (call.ranges.range # Zero) # (call.ranges.darknessRange # Zero)

\* darkvision over 60 feet: only darknessRange is set
C6_Witness ==
    /\ Resolved /\ call.feet = Ft(60) /\ call.miles = Zero
    /\ IsTag(call.visionType, "darkvision")
    /\ call.ranges = Ranges(Zero, Ft(60))

\* C7: in both revisions, for every feet >= 0, miles >= 0 and every visionType,
\* calculateVisionRanges(calculateTotalVision(feet, miles), visionType) has
\* range >= 0 and darknessRange >= 0, both whole numbers.
C7_RangesNonNegativeWhole ==
    (Resolved /\ IsNonNeg(call.feet) /\ IsNonNeg(call.miles)) =>
        /\ IsNonNeg(call.ranges.range) /\ IsWhole(call.ranges.range)
        /\ IsNonNeg(call.ranges.darknessRange) /\ IsWhole(call.ranges.darknessRange)

\* a fractional distance has gone through both methods
C7_Witness ==
    /\ Resolved /\ call.feet = Num(500 * Den + Den \div 2) /\ call.miles = Num(1)
    /\ IsTag(call.visionType, "low-light")
    /\ IsNonNeg(call.ranges.range) /\ call.ranges.range # Zero

\* C8: in both revisions, for a fixed visionType and non-negative inputs,
\* feet1 <= feet2 and miles1 <= miles2 imply that neither range nor
\* darknessRange from (feet1, miles1) exceeds the one from (feet2, miles2).
C8_Monotone ==
    (Resolved /\ IsNonNeg(call.feet) /\ IsNonNeg(call.miles)) =>
        \A f1 \in FeetInputs, m1 \in MilesInputs :
            (IsNonNeg(f1) /\ IsNonNeg(m1) /\ f1.n <= call.feet.n /\ m1.n <= call.miles.n) =>
                LET r1 == calculateVisionRanges(calculateTotalVision(f1, m1), call.visionType)
                IN  /\ r1.range.n <= call.ranges.range.n
                    /\ r1.darknessRange.n <= call.ranges.darknessRange.n

\* a distance past the cap, with smaller distances below it
C8_Witness ==
    /\ Resolved /\ call.feet = Ft(1001) /\ call.miles = Num(1)
    /\ IsTag(call.visionType, "darkvision")
    /\ call.ranges.darknessRange.n >= 1000 * Den

-----------------------------------------------------------------------------
(* Properties of the module on the host's bus, checked under Spec *)

\* C9: the resolver is pure.  A result once returned is what the same call
\* returns in every later state, whatever handlers and calls ran in between,
\* and a step that is a resolver call (call changes) leaves this.initialized, the registered
\* hooks, the token document and the update in flight unchanged.
C9_ResolverIsPure ==
    [][/\ (TotalReturned =>
              call.total = calculateTotalVision(call.feet, call.miles))'
       /\ (RangesReturned =>
              call.ranges = calculateVisionRanges(call.total, call.visionType))'
       /\ call' # call =>
             UNCHANGED <<initialized, hooks, token, request, pending, stage,
                         settings, scene, corrective, queued>>]_vars

\* a result is held while the hooks are registered and a token update has just
\* gone through onPreUpdateToken
C9_Witness ==
    /\ call.fn = "calculateVisionRanges" /\ call.ranges # ZeroRanges
    /\ initialized
    /\ stage = "apply"

\* a value the claim takes for invalid: present, and not a number or negative
IsInvalidNumber(v) ==
    v # Undefined /\ (ToNumber(v).k = "nan" \/ Sign(ToNumber(v)) < 0)

\* C10: when onPreUpdateToken receives a daylightVisionFeet or
\* daylightVisionMiles that is non-numeric or negative, the ranges it writes
\* into changes.vision are those computed with that value taken as 0, and
\* neither is negative.
C10_InvalidInputTakenAsZero ==
    (stage = "apply" /\ request.flags.present
        /\ (IsInvalidNumber(request.flags.daylightVisionFeet)
            \/ IsInvalidNumber(request.flags.daylightVisionMiles))) =>
        LET zeroed(v) == IF IsInvalidNumber(v) THEN Zero ELSE v
            coerced == [request EXCEPT
                          !.flags.daylightVisionFeet = zeroed(@),
                          !.flags.daylightVisionMiles = zeroed(@)]
            expected == calculateVisionRanges(
                            calculateTotalVision(newFeet(token, coerced), newMiles(token, coerced)),
                            newVisionType(token, coerced))
        IN  /\ pending.range = expected.range
            /\ pending.darknessRange = expected.darknessRange
            /\ IsNonNeg(pending.range)
            /\ IsNonNeg(pending.darknessRange)

-----------------------------------------------------------------------------
(* C11, checked under ResolverSpec *)

\* a value that Number() turns into NaN: undefined, NaN, a non-numeric string
IsUnusable(v) == ToNumber(v).k = "nan"

\* C11: for every input, including undefined, null, non-numeric strings and NaN
\* for feet, miles or total, both methods return numbers that are not NaN, the
\* ones they return with each unusable value replaced by 0.
C11_NeverNaN ==
    LET zeroed(v) == IF IsUnusable(v) THEN Zero ELSE v
    IN  /\ TotalReturned =>
              /\ call.total.k \in {"num", "inf", "ninf"}
              /\ call.total = calculateTotalVision(zeroed(call.feet), zeroed(call.miles))
        /\ RangesReturned =>
              /\ call.ranges.range.k \in {"num", "inf", "ninf"}
              /\ call.ranges.darknessRange.k \in {"num", "inf", "ninf"}
              /\ call.ranges = calculateVisionRanges(zeroed(call.total), call.visionType)

-----------------------------------------------------------------------------
(* C12 and C13, checked under CreateSpec *)

\* onPreCreateToken has run on the creation data: request is the data it was
\* given, pending the data it left
PreCreateHandled == stage = "create"

\* C12: in both revisions, after onPreCreateToken the data's vision.range and
\* vision.darkness.range are the resolver's output for the flags the data ends
\* up with.
C12_CreationRecomputesRanges ==
    PreCreateHandled =>
        LET flags == pending.flags
            ranges == calculateVisionRanges(
                          calculateTotalVision(flags.daylightVisionFeet,
                                               flags.daylightVisionMiles),
                          flags.visionType)
        IN  /\ pending.range = ranges.range
            /\ pending.darknessRange = ranges.darknessRange

\* C13: creation data without the module's flags receives the configured
\* defaults, 0, 0 and 'normal' standing in for a setting that is unset or falsy;
\* creation data that carries the flags keeps them exactly as given.
C13_DefaultsOnlyWhenNoFlags ==
    LET configured(value, fallback) == IF ToBoolean(value) THEN value ELSE fallback
    IN  (PreCreateHandled /\ settingsReadable) =>
            IF request.flags.present
            THEN pending.flags = request.flags
            ELSE /\ pending.flags.present
                 /\ pending.flags.daylightVisionFeet =
                        configured(settings.defaultDaylightFeet, Zero)
                 /\ pending.flags.daylightVisionMiles =
                        configured(settings.defaultDaylightMiles, Zero)
                 /\ pending.flags.visionType =
                        configured(settings.defaultVisionType, Str("normal"))

\* a configured default and a fallback arrive in the same data
C13_Witness ==
    /\ PreCreateHandled
    /\ ~request.flags.present
    /\ settings.defaultDaylightFeet = Ft(60)
    /\ settings.defaultVisionType = Str("")
    /\ pending.flags.daylightVisionFeet = Ft(60)
    /\ pending.flags.daylightVisionMiles = Zero
    /\ pending.flags.visionType = Str("normal")

-----------------------------------------------------------------------------
(* C14 to C20, checked under HostSpec *)

\* onPreUpdateToken has run on the update in flight: request is the changes it
\* was given, pending the changes it left, token the document before the update
PreUpdateHandled == stage = "apply"

\* the ranges onPreUpdateToken writes for the update in flight when the scene has
\* the given darkness level; the handler reads the document's flags and the
\* changes, and nothing of the scene
WrittenOnScene(level) ==
    LET changes == preUpdateChanges(token, request)
    IN  <<changes.range, changes.darknessRange>>

\* C14: the ranges the update hook writes depend on the scene's lighting: the same
\* feet, miles and vision type give other ranges under some other lighting.
C14_RangesDependOnSceneLighting ==
    (PreUpdateHandled /\ request.flags.present) =>
        \E level \in DarknessLevels \ {scene} :
            WrittenOnScene(level) # <<pending.range, pending.darknessRange>>

\* C15: after any sequence of initialize() calls, those following a call in which
\* a registration threw included, every handler is registered at most once.
C15_RegisteredAtMostOnce == \A e \in Events : hooks[e] <= 1

\* C16: each of feet, miles and visionType is the value in the changes when the
\* changes have it, else the value stored on the document, else 0, 0, 'normal';
\* the ranges written are the resolver's output for these three.
C16_FieldsResolvedIndependently ==
    LET merged(key, fallback) ==
            IF request.flags[key] # Undefined THEN request.flags[key]
            ELSE IF token.flags.present /\ token.flags[key] \notin {Undefined, Null}
                 THEN token.flags[key]
                 ELSE fallback
        ranges == calculateVisionRanges(
                      calculateTotalVision(merged("daylightVisionFeet", Zero),
                                           merged("daylightVisionMiles", Zero)),
                      merged("visionType", Str("normal")))
    IN  (PreUpdateHandled /\ request.flags.present) =>
            /\ pending.range = ranges.range
            /\ pending.darknessRange = ranges.darknessRange

\* an update of visionType alone, computed with the stored feet and miles
C16_Witness ==
    /\ PreUpdateHandled
    /\ request.flags.present
    /\ request.flags.daylightVisionFeet = Undefined
    /\ request.flags.daylightVisionMiles = Undefined
    /\ request.flags.visionType = Str("tremorsense")
    /\ token.flags.daylightVisionFeet = Ft(60)
    /\ token.flags.daylightVisionMiles = Num(1)
    /\ Ranges(pending.range, pending.darknessRange) # ZeroRanges

\* C17: with no flags of the module on the document and none in the changes,
\* onPreUpdateToken leaves the changes as they are and onUpdateToken issues no
\* update.
C17_UnflaggedTokenLeftAlone ==
    /\ (PreUpdateHandled /\ ~token.flags.present /\ ~request.flags.present) =>
           pending = request
    /\ ~token.flags.present => corrective = 0

\* C18: in part_000, when the post-update check ends an update's cycle on a token
\* that carries the flags, the stored ranges are the resolver's output for the
\* stored flags.
C18_StoredRangesMatchAfterCheck ==
    [][(rev = "uncapped" /\ stage = "updated" /\ stage' = "idle" /\ token.flags.present) =>
         LET flags == token.flags
             ranges == calculateVisionRanges(
                           calculateTotalVision(flags.daylightVisionFeet,
                                                flags.daylightVisionMiles),
                           flags.visionType)
         IN  /\ token.range = ranges.range
             /\ token.darknessRange = ranges.darknessRange]_vars

\* a cycle has ended after a corrective update wrote ranges that are not zero
C18_Witness ==
    /\ rev = "uncapped"
    /\ stage = "idle"
    /\ token.flags.present
    /\ corrective > 0
    /\ token.darknessRange # Zero

\* C19: in part_000, an update from outside is followed by at most one corrective
\* update.
C19_AtMostOneCorrectiveUpdate == corrective <= 1

\* C20: onPreUpdateToken leaves every key of the changes other than vision.range
\* and vision.darkness.range as it was.
C20_OtherKeysUntouched ==
    PreUpdateHandled =>
        /\ pending.angle = request.angle
        /\ pending.darknessMin = request.darknessMin
        /\ pending.name = request.name
        /\ pending.flags = request.flags

\* the handler overwrote vision.darkness.range in changes that carry other keys
C20_Witness ==
    /\ PreUpdateHandled
    /\ request.angle = Ft(90)
    /\ request.darknessMin = Ft(1)
    /\ request.name = Str("abc")
    /\ request.darknessRange = Ft(7)
    /\ pending.darknessRange # request.darknessRange

-----------------------------------------------------------------------------
(* C21, checked under CreateSpec *)

\* C21: when a read of the default settings fails, onPreCreateToken returns to
\* the host, which goes on with the creation, and the creation data, flags and
\* vision, is as the handler received it.
C21_ReadFailureLeavesDataAlone ==
    (PreCreateHandled /\ ~settingsReadable) => pending = request

\* the handler has returned on data without flags and with a vision range of its
\* own, the third setting being unregistered
C21_Witness ==
    /\ PreCreateHandled
    /\ ~settingsReadable
    /\ ~request.flags.present
    /\ request.range = Ft(7)
    /\ settings.defaultDaylightFeet = Zero
    /\ settings.defaultVisionType = Unregistered

-----------------------------------------------------------------------------
(* C22 and C23, checked under ResolverSpec *)

\* C22: in both revisions, for every total and every vision type, enumerated or
\* not, calculateVisionRanges returns range 0 or darknessRange 0.
C22_NeverBothNonZero ==
    RangesReturned =>
        \/ call.ranges.range = Zero
        \/ call.ranges.darknessRange = Zero

\* a vision type that is no string and a total that is no finite number
C22_Witness ==
    /\ RangesReturned
    /\ call.visionType = Null
    /\ call.total = PosInf
    /\ call.ranges.range # Zero
    /\ call.ranges.darknessRange = Zero

\* C23: for normal, low-light, darkvision or an unrecognized vision type with
\* 0 <= total <= 1000, and for blindsight with 0 <= total <= 500, the method of
\* src/scripts/pf2e-vision-config.js and the method of src/unnamed/part_000
\* return the same range and the same darknessRange.
C23_RevisionsAgreeBelowCaps ==
    LET belowCap ==
            /\ IsNonNeg(call.total)
            /\ ~IsTag(call.visionType, "tremorsense")
            /\ IF IsTag(call.visionType, "blindsight")
               THEN Less(call.total, Ft(500)) \/ call.total = Ft(500)
               ELSE Less(call.total, Ft(1000)) \/ call.total = Ft(1000)
    IN  (RangesReturned /\ belowCap) =>
            /\ call.ranges = calculateVisionRangesCapped(call.total, call.visionType)
            /\ call.ranges = calculateVisionRangesUncapped(call.total, call.visionType)

\* the uncapped revision has returned 2000 for low-light at the cap of the other
C23_Witness ==
    /\ RangesReturned
    /\ rev = "uncapped"
    /\ call.visionType = Str("low-light")
    /\ call.total = Ft(1000)
    /\ call.ranges = Ranges(Ft(2000), Zero)

====
